---- MODULE Spec2Model ----
(***************************************************************************)
(* Model of assignment4/solution.py: RANSACFilter, FindBestMatches,        *)
(* KeypointProjection and RANSACHomography.                                *)
(*                                                                         *)
(* Indices are 1-based here (0-based in the Python source).  Real numbers  *)
(* are kept exact: a scale ratio s1/s2 is compared by cross-multiplying,   *)
(* an angular distance acos(dot(d1, d2)) of two unit vectors is the angle  *)
(* between them measured in steps of a regular division of the circle, a   *)
(* projected point x'/w' is compared through its homogeneous coordinates.  *)
(***************************************************************************)
EXTENDS Integers, Sequences, FiniteSets, TLC

VARIABLES
    \* ---- RANSACFilter ----
    matched_pairs,      \* argument: list of <<i, j>>
    keypoints1,         \* argument: rows <<row, col, scale, orientation>>
    keypoints2,         \* argument
    orient_agreement,   \* argument
    scale_agreement,    \* argument, a rational <<num, den>>
    random_selections,  \* the sampled matches
    fi,                 \* the loop variable i of the sample loop
    largest_set,        \* the tracked largest consensus set
    fpc,                \* "idle", "sample", "loop", "returned", "failed"
    ferror,             \* the exception that ended the call, or "none"
    \* ---- FindBestMatches ----
    descriptors1,       \* argument: list of unit vectors (angle steps)
    descriptors2,       \* argument
    threshold,          \* argument, a rational <<num, den>>
    mi,                 \* the loop variable i
    m_pairs,            \* the local matched_pairs being built
    mpc,                \* "idle", "loop", "returned", "failed"
    merror,
    \* ---- RANSACHomography ----
    xy_src,             \* argument: list of points <<x, y>>
    xy_ref,             \* argument
    num_iter,           \* argument
    tol,                \* argument
    hi,                 \* the loop variable i
    h_sel,              \* random_selections of the current iteration
    h,                  \* the matrix the last solver call gave, or None
    h_largest,          \* the tracked largest inlier set (list of indices)
    h_cands,            \* history: the matrix fitted in each finished iteration
    h_fit_on,           \* the index list the last solver call was given
    hpc,                \* "idle", "loop", "refit", "returned", "failed"
    herror

varsF == <<matched_pairs, keypoints1, keypoints2, orient_agreement,
           scale_agreement, random_selections, fi, largest_set, fpc, ferror>>
varsM == <<descriptors1, descriptors2, threshold, mi, m_pairs, mpc, merror>>
varsH == <<xy_src, xy_ref, num_iter, tol, hi, h_sel, h, h_largest, h_cands,
           h_fit_on, hpc, herror>>
vars == <<varsF, varsM, varsH>>

Abs(x) == IF x < 0 THEN -x ELSE x

Min(a, b) == IF a < b THEN a ELSE b

Range(s) == {s[k] : k \in 1..Len(s)}

(***************************************************************************)
(* Bounds of the model.                                                    *)
(***************************************************************************)
MaxMatches == 11

\* random.sample(matched_pairs, 10)
SampleCount == 10

(***************************************************************************)
(* RANSACFilter                                                            *)
(***************************************************************************)

\* keypoint = (row, col, scale, orientation)
Scale(kp) == kp[3]

Orientation(kp) == kp[4]

\* keypoints1[m[0]][3] - keypoints2[m[1]][3]
OrientDiff(m, kp1, kp2) == Orientation(kp1[m[1]]) - Orientation(kp2[m[2]])

\* keypoints1[m[0]][2] / keypoints2[m[1]][2], as the rational <<num, den>>
ScaleRatio(m, kp1, kp2) == <<Scale(kp1[m[1]]), Scale(kp2[m[2]])>>

\* abs(p - q) <= a for rationals p, q with positive denominators and the
\* rational a = <<num, den>>, den > 0
RatWithin(p, q, a) ==
    Abs(p[1] * q[2] - q[1] * p[2]) * a[2] <= a[1] * p[2] * q[2]

\* line 41 with < in place of the first <=
AgreesMutStrict(m, base, kp1, kp2, oa, sa) ==
    /\ Abs(OrientDiff(m, kp1, kp2) - OrientDiff(base, kp1, kp2)) < oa
    /\ RatWithin(ScaleRatio(m, kp1, kp2), ScaleRatio(base, kp1, kp2), sa)

\* line 41 with the first comparison turned around
AgreesMutInverted(m, base, kp1, kp2, oa, sa) ==
    /\ Abs(OrientDiff(m, kp1, kp2) - OrientDiff(base, kp1, kp2)) >= oa
    /\ RatWithin(ScaleRatio(m, kp1, kp2), ScaleRatio(base, kp1, kp2), sa)

\* the condition of the inner loop, line 41
Agrees(m, base, kp1, kp2, oa, sa) ==
    /\ Abs(OrientDiff(m, kp1, kp2) - OrientDiff(base, kp1, kp2)) <= oa
    /\ RatWithin(ScaleRatio(m, kp1, kp2), ScaleRatio(base, kp1, kp2), sa)

\* current_set of one sample: lines 39-42
CurrentSet(base, pairs, kp1, kp2, oa, sa) ==
    LET Test(m) == Agrees(m, base, kp1, kp2, oa, sa)
    IN  SelectSeq(pairs, Test)

\* lines 43-44 with >= in place of >
KeepLargestMutTie(current, largest) ==
    IF Len(current) >= Len(largest) THEN current ELSE largest

\* lines 43-44
KeepLargest(current, largest) ==
    IF Len(current) > Len(largest) THEN current ELSE largest

\* one pass of the sample loop, lines 37-44
FilterStep(largest, base, pairs, kp1, kp2, oa, sa) ==
    KeepLargest(CurrentSet(base, pairs, kp1, kp2, oa, sa), largest)

\* the sample loop from pass k on, lines 36-44
RECURSIVE FilterLoop(_, _, _, _, _, _, _, _)
FilterLoop(k, largest, sels, pairs, kp1, kp2, oa, sa) ==
    IF k > Len(sels) THEN largest
    ELSE FilterLoop(k + 1,
                    FilterStep(largest, sels[k], pairs, kp1, kp2, oa, sa),
                    sels, pairs, kp1, kp2, oa, sa)

\* The draws of random.sample(population, k) the model enumerates: the
\* elements at k distinct positions, taken along a walk over the positions.
FilterStrides == {1, 3, -1}

WalkPos(n, start, stride, t) == ((start - 1 + (t - 1) * stride) % n) + 1

SampleDraws(population, k, strides) ==
    LET n == Len(population)
        walks == {[t \in 1..k |-> WalkPos(n, st[1], st[2], t)] :
                     st \in (1..n) \X strides}
        distinct == {w \in walks : Cardinality(Range(w)) = k}
    IN  {[t \in 1..k |-> population[w[t]]] : w \in distinct}

\* the sample size line 33 asks for
SampleSize(pairs) == SampleCount

\* Input tables of the model.
OrientAgreements == {-1, 0, 10, 30}

ScaleAgreements == {<<-1, 2>>, <<0, 1>>, <<1, 2>>}

Keypoints2 == << <<0, 0, 1, 0>>, <<0, 0, 2, 10>> >>

Keypoints1(a, b) ==
    [k \in 1..MaxMatches |-> <<k, k, 1 + ((b * k) % 3), 10 * ((a * k) % 4)>>]

Matches(n, c) == [k \in 1..n |-> <<k, 1 + ((c * k) % 2)>>]

IdleF ==
    /\ matched_pairs = <<>>
    /\ keypoints1 = <<>>
    /\ keypoints2 = <<>>
    /\ orient_agreement = 0
    /\ scale_agreement = <<0, 1>>
    /\ random_selections = <<>>
    /\ fi = 0
    /\ largest_set = <<>>
    /\ fpc = "idle"
    /\ ferror = "none"

\* the call RANSACFilter(matched_pairs, keypoints1, keypoints2, ...)
InitF ==
    /\ \E n \in 0..MaxMatches, a \in 0..2, b \in 1..2, c \in 0..1 :
          /\ matched_pairs = Matches(n, c)
          /\ keypoints1 = Keypoints1(a, b)
    /\ keypoints2 = Keypoints2
    /\ orient_agreement \in OrientAgreements
    /\ scale_agreement \in ScaleAgreements
    /\ random_selections = <<>>
    /\ fi = 0
    /\ largest_set = <<>>
    /\ fpc = "sample"
    /\ ferror = "none"

\* line 33 raises ValueError: sample larger than population
FilterSampleFails ==
    /\ fpc = "sample"
    /\ SampleSize(matched_pairs) > Len(matched_pairs)
    /\ fpc' = "failed"
    /\ ferror' = "ValueError"
    /\ UNCHANGED <<matched_pairs, keypoints1, keypoints2, orient_agreement,
                   scale_agreement, random_selections, fi, largest_set>>

\* lines 33-34
FilterSample ==
    /\ fpc = "sample"
    /\ SampleSize(matched_pairs) <= Len(matched_pairs)
    /\ random_selections' \in
          SampleDraws(matched_pairs, SampleSize(matched_pairs), FilterStrides)
    /\ largest_set' = <<>>
    /\ fi' = 1
    /\ fpc' = "loop"
    /\ UNCHANGED <<matched_pairs, keypoints1, keypoints2, orient_agreement,
                   scale_agreement, ferror>>

\* one pass of the loop of line 36
FilterIter ==
    /\ fpc = "loop"
    /\ fi <= Len(random_selections)
    /\ largest_set' = FilterStep(largest_set, random_selections[fi],
                                 matched_pairs, keypoints1, keypoints2,
                                 orient_agreement, scale_agreement)
    /\ fi' = fi + 1
    /\ UNCHANGED <<matched_pairs, keypoints1, keypoints2, orient_agreement,
                   scale_agreement, random_selections, fpc, ferror>>

\* lines 46-47
FilterReturn ==
    /\ fpc = "loop"
    /\ fi > Len(random_selections)
    /\ fpc' = "returned"
    /\ UNCHANGED <<matched_pairs, keypoints1, keypoints2, orient_agreement,
                   scale_agreement, random_selections, fi, largest_set,
                   ferror>>

(***************************************************************************)
(* Properties of RANSACFilter                                              *)
(***************************************************************************)

\* s is a sub-list of t: the elements of s occur in t in the same order
RECURSIVE IsSubList(_, _)
IsSubList(s, t) ==
    IF s = <<>> THEN TRUE
    ELSE IF t = <<>> THEN FALSE
    ELSE IF Head(s) = Head(t) THEN IsSubList(Tail(s), Tail(t))
    ELSE IsSubList(s, Tail(t))

\* p <= q for rationals with positive denominators
RatLeq(p, q) == p[1] * q[2] <= q[1] * p[2]

\* match m is within the thresholds of the sampled match s
WithinOf(m, s) ==
    LET od(x) == keypoints1[x[1]][4] - keypoints2[x[2]][4]
        sn(x) == keypoints1[x[1]][3]
        sd(x) == keypoints2[x[2]][3]
    IN  /\ Abs(od(m) - od(s)) <= orient_agreement
        /\ Abs(sn(m) * sd(s) - sn(s) * sd(m)) * scale_agreement[2]
              <= scale_agreement[1] * sd(m) * sd(s)

\* the positions of the input list that are in the consensus set of sample k
ConsensusPositions(k) ==
    {p \in 1..Len(matched_pairs) :
        WithinOf(matched_pairs[p], random_selections[k])}

\* the list l holds exactly the input matches at the positions P, in input
\* order
IsInputAt(l, P) ==
    /\ Len(l) = Cardinality(P)
    /\ \A p \in P :
          l[Cardinality({q \in P : q <= p})] = matched_pairs[p]

\* C2: with 1 to 9 matches the filter samples len(matches) of them and
\* returns a consensus set; it never asks for more samples than exist and
\* does not fail.
C2_SmallListsAreFiltered ==
    (Len(matched_pairs) \in 1..(SampleCount - 1) /\ fpc # "sample")
        => /\ fpc # "failed"
           /\ Len(random_selections) = Len(matched_pairs)

\* C5: the returned list is the consensus set (all input matches within the
\* thresholds of the sample, in input order) of the first sample whose
\* consensus set has the maximum size over all samples.
C5_ReturnsFirstLargestConsensusSet ==
    fpc = "returned" =>
        \E m \in 1..Len(random_selections) :
            /\ \A k \in 1..Len(random_selections) :
                  Cardinality(ConsensusPositions(k))
                      <= Cardinality(ConsensusPositions(m))
            /\ \A k \in 1..(m - 1) :
                  Cardinality(ConsensusPositions(k))
                      < Cardinality(ConsensusPositions(m))
            /\ IsInputAt(largest_set, ConsensusPositions(m))

\* a later sample ties the size of the winning set with a different set
C5_Witness ==
    /\ fpc = "returned"
    /\ \E k \in 1..Len(random_selections) :
          /\ Cardinality(ConsensusPositions(k)) = Len(largest_set)
          /\ ~IsInputAt(largest_set, ConsensusPositions(k))
    /\ Len(largest_set) > 1
    /\ Len(largest_set) < Len(matched_pairs)

\* the result of the same call (same matches, keypoints and samples) under
\* the thresholds oa, sa
ResultUnder(oa, sa) ==
    FilterLoop(1, <<>>, random_selections, matched_pairs, keypoints1,
               keypoints2, oa, sa)

TighterThresholds ==
    {t \in OrientAgreements \X ScaleAgreements :
        t[1] <= orient_agreement /\ RatLeq(t[2], scale_agreement)}

\* C6 as stated: the set returned under looser thresholds is a superset of
\* the set returned under tighter thresholds, or the two have equal size.
C6_SupersetOrEqualSize ==
    fpc = "returned" =>
        \A t \in TighterThresholds :
            \/ Range(ResultUnder(t[1], t[2])) \subseteq Range(largest_set)
            \/ Len(ResultUnder(t[1], t[2])) = Len(largest_set)

\* C6 amended: the set returned under looser thresholds is at least as large
\* as the set returned under tighter thresholds.
C6_LooserIsAtLeastAsLarge ==
    fpc = "returned" =>
        \A t \in TighterThresholds :
            Len(ResultUnder(t[1], t[2])) <= Len(largest_set)

\* a strictly tighter run returned a non-empty set that the looser run's
\* larger result does not contain
C6_Witness ==
    /\ fpc = "returned"
    /\ \E t \in TighterThresholds :
          /\ ResultUnder(t[1], t[2]) # <<>>
          /\ Len(ResultUnder(t[1], t[2])) < Len(largest_set)
          /\ ~(Range(ResultUnder(t[1], t[2])) \subseteq Range(largest_set))

\* C10: with non-negative thresholds a returned set is a non-empty sub-list
\* of the input matches, and the tracked largest set never shrinks during
\* the sample loop.
C10_ReturnedSetNonEmptySubList ==
    /\ [](  (fpc = "returned" /\ orient_agreement >= 0
                /\ scale_agreement[1] >= 0)
          => (/\ Len(largest_set) >= 1
              /\ IsSubList(largest_set, matched_pairs)))
    /\ [][Len(largest_set') >= Len(largest_set)]_vars

\* every sampled match is alone in its consensus set
C10_Witness ==
    /\ fpc = "returned"
    /\ orient_agreement >= 0
    /\ scale_agreement[1] >= 0
    /\ Len(largest_set) = 1
    /\ largest_set[1] = random_selections[1]

(***************************************************************************)
(* FindBestMatches                                                         *)
(***************************************************************************)
MaxDesc == 3

\* The unit vectors of the model lie in one plane, at the angles
\* 0, 1, ..., CircleSteps - 1 times (2 pi / CircleSteps).
CircleSteps == 8

DescriptorValues == {0, 1, 3}

Thresholds == {<<1, 3>>, <<1, 2>>, <<3, 4>>, <<1, 1>>}

\* math.acos(np.dot(d1, d2)) of two unit vectors: the angle between them,
\* in [0, pi], in steps of 2 pi / CircleSteps
AngDist(d1, d2) == Min(Abs(d1 - d2), CircleSteps - Abs(d1 - d2))

\* sorted() is stable: an entry goes after the entries whose key is not
\* larger than its own.  keys[j] is the key of entry j.
RECURSIVE InsertByKey(_, _, _)
InsertByKey(sorted, j, keys) ==
    IF sorted = <<>> THEN <<j>>
    ELSE IF keys[Head(sorted)] <= keys[j]
         THEN <<Head(sorted)>> \o InsertByKey(Tail(sorted), j, keys)
         ELSE <<j>> \o sorted

RECURSIVE SortedByKey(_, _)
SortedByKey(n, keys) ==
    IF n = 0 THEN <<>>
    ELSE InsertByKey(SortedByKey(n - 1, keys), n, keys)

\* line 76: the indices of descriptors2 in the order of descriptors2_sorted
Descriptors2Sorted(d1, ds2) ==
    SortedByKey(Len(ds2), [j \in 1..Len(ds2) |-> AngDist(d1, ds2[j])])

\* line 77 with < in place of <=
RatioTestMutStrict(best, second, th) == best * th[2] < th[1] * second

\* line 77: best / second <= threshold, for second # 0
RatioTest(best, second, th) == best * th[2] <= th[1] * second

\* the call FindBestMatches(descriptors1, descriptors2, threshold)
InitM ==
    /\ \E n1 \in 0..MaxDesc : descriptors1 \in [1..n1 -> DescriptorValues]
    /\ \E n2 \in 0..MaxDesc : descriptors2 \in [1..n2 -> DescriptorValues]
    /\ threshold \in Thresholds
    /\ mi = 1
    /\ m_pairs = <<>>
    /\ mpc = "loop"
    /\ merror = "none"

\* line 77, descriptors2_sorted[0] or descriptors2_sorted[1]: IndexError
MatchIterIndexError ==
    /\ mpc = "loop"
    /\ mi <= Len(descriptors1)
    /\ Len(Descriptors2Sorted(descriptors1[mi], descriptors2)) < 2
    /\ mpc' = "failed"
    /\ merror' = "IndexError"
    /\ UNCHANGED <<descriptors1, descriptors2, threshold, mi, m_pairs>>

\* line 77, the division by a zero second-nearest distance:
\* ZeroDivisionError
MatchIterZeroDivision ==
    /\ mpc = "loop"
    /\ mi <= Len(descriptors1)
    /\ LET order == Descriptors2Sorted(descriptors1[mi], descriptors2)
       IN  /\ Len(order) >= 2
           /\ AngDist(descriptors1[mi], descriptors2[order[2]]) = 0
    /\ mpc' = "failed"
    /\ merror' = "ZeroDivisionError"
    /\ UNCHANGED <<descriptors1, descriptors2, threshold, mi, m_pairs>>

\* lines 76-78, the ratio test passes
MatchIterAccept ==
    /\ mpc = "loop"
    /\ mi <= Len(descriptors1)
    /\ LET order == Descriptors2Sorted(descriptors1[mi], descriptors2)
       IN  /\ Len(order) >= 2
           /\ AngDist(descriptors1[mi], descriptors2[order[2]]) # 0
           /\ RatioTest(AngDist(descriptors1[mi], descriptors2[order[1]]),
                        AngDist(descriptors1[mi], descriptors2[order[2]]),
                        threshold)
           /\ m_pairs' = Append(m_pairs, <<mi, order[1]>>)
    /\ mi' = mi + 1
    /\ UNCHANGED <<descriptors1, descriptors2, threshold, mpc, merror>>

\* lines 76-77, the ratio test fails
MatchIterReject ==
    /\ mpc = "loop"
    /\ mi <= Len(descriptors1)
    /\ LET order == Descriptors2Sorted(descriptors1[mi], descriptors2)
       IN  /\ Len(order) >= 2
           /\ AngDist(descriptors1[mi], descriptors2[order[2]]) # 0
           /\ ~RatioTest(AngDist(descriptors1[mi], descriptors2[order[1]]),
                         AngDist(descriptors1[mi], descriptors2[order[2]]),
                         threshold)
    /\ mi' = mi + 1
    /\ UNCHANGED <<descriptors1, descriptors2, threshold, m_pairs, mpc,
                   merror>>

\* line 79
MatchReturn ==
    /\ mpc = "loop"
    /\ mi > Len(descriptors1)
    /\ mpc' = "returned"
    /\ UNCHANGED <<descriptors1, descriptors2, threshold, mi, m_pairs,
                   merror>>

(***************************************************************************)
(* Properties of FindBestMatches                                           *)
(***************************************************************************)

DistTo(i, j) == AngDist(descriptors1[i], descriptors2[j])

\* j is the nearest entry of descriptors2 to descriptors1[i], the lowest
\* index among equidistant entries
IsNearest(i, j) ==
    \A k \in 1..Len(descriptors2) :
        \/ DistTo(i, j) < DistTo(i, k)
        \/ (DistTo(i, j) = DistTo(i, k) /\ j <= k)

\* s is the distance of the second nearest entry, j being the nearest
IsSecondDist(i, j, s) ==
    /\ \E k \in (1..Len(descriptors2)) \ {j} : DistTo(i, k) = s
    /\ \A k \in (1..Len(descriptors2)) \ {j} : DistTo(i, k) >= s

PassesRatio(i, j) ==
    \E k \in (1..Len(descriptors2)) \ {j} :
        /\ IsSecondDist(i, j, DistTo(i, k))
        /\ DistTo(i, j) * threshold[2] <= threshold[1] * DistTo(i, k)

\* C7: with at least 2 entries in descriptors2 the returned list holds
\* (i, j) iff j is the nearest entry to descriptors1[i] (lowest index among
\* equidistant ones) and best/second <= threshold; at most one pair per i,
\* in ascending order of i.
C7_RatioTestExact ==
    (mpc = "returned" /\ Len(descriptors2) >= 2) =>
        /\ \A i \in 1..Len(descriptors1), j \in 1..Len(descriptors2) :
              (<<i, j>> \in Range(m_pairs))
                  <=> (IsNearest(i, j) /\ PassesRatio(i, j))
        /\ \A p \in 1..Len(m_pairs) :
              /\ m_pairs[p][1] \in 1..Len(descriptors1)
              /\ m_pairs[p][2] \in 1..Len(descriptors2)
        /\ \A p, q \in 1..Len(m_pairs) :
              p < q => m_pairs[p][1] < m_pairs[q][1]

\* a pair accepted at equality of the ratio and the threshold, chosen among
\* equidistant entries, with its j also matched by another i
C7_Witness ==
    /\ mpc = "returned"
    /\ Len(descriptors2) >= 2
    /\ \E p, q \in 1..Len(m_pairs) :
          /\ p # q
          /\ m_pairs[p][2] = m_pairs[q][2]
          /\ \E k \in 1..Len(descriptors2) :
                /\ k # m_pairs[p][2]
                /\ DistTo(m_pairs[p][1], k)
                      = DistTo(m_pairs[p][1], m_pairs[p][2])

\* C8: with fewer than 2 entries in descriptors2 the call completes and
\* returns an empty list.
C8_FewDescriptorsGiveNoMatch ==
    Len(descriptors2) < 2 => (mpc # "failed" /\ m_pairs = <<>>)

\* C9: for identical descriptor lists of at least 2 entries and a threshold
\* below 1 the call completes and every returned pair is (i, i).
C9_IdenticalSetsMatchThemselves ==
    (/\ descriptors1 = descriptors2
     /\ Len(descriptors2) >= 2
     /\ threshold[1] < threshold[2])
        => /\ mpc # "failed"
           /\ \A p \in 1..Len(m_pairs) : m_pairs[p][1] = m_pairs[p][2]

(***************************************************************************)
(* KeypointProjection and RANSACHomography                                 *)
(***************************************************************************)
MaxPts == 5

MaxIter == 2

\* random.sample(range(len(xy_src)), 4)
MinimalSample == 4

\* 3 x 3 matrices, as tuples of rows
Identity == << <<1, 0, 0>>, <<0, 1, 0>>, <<0, 0, 1>> >>

StretchX == << <<2, 0, 0>>, <<0, 1, 0>>, <<0, 0, 1>> >>

\* a projective map whose third coordinate is x - 1
Projective == << <<1, 0, 0>>, <<0, 1, 0>>, <<1, 0, -1>> >>

Homographies == {Identity, StretchX, Projective}

\* line 101: np.dot(h, homogeneous_points.T) for one point (x, y, 1)
MatVec(m, p) ==
    <<m[1][1] * p[1] + m[1][2] * p[2] + m[1][3],
      m[2][1] * p[1] + m[2][2] * p[2] + m[2][3],
      m[3][1] * p[1] + m[3][2] * p[2] + m[3][3]>>

\* lines 99-102.  A projected point x'/w', y'/w' is kept as <<x', y', w'>>;
\* with w' = 0 numpy's division gives inf or nan.
KeypointProjection(xy_points, m) ==
    [j \in 1..Len(xy_points) |-> MatVec(m, xy_points[j])]

\* line 141: np.linalg.norm(xy_ref[j] - projected_points[j]) <= tol.  The
\* norm of an inf or nan coordinate is inf or nan, and the comparison false.
WithinTol(ref, proj, t) ==
    /\ proj[3] # 0
    /\ t >= 0
    /\ (proj[1] - ref[1] * proj[3]) * (proj[1] - ref[1] * proj[3])
          + (proj[2] - ref[2] * proj[3]) * (proj[2] - ref[2] * proj[3])
          <= t * t * proj[3] * proj[3]

Indices(n) == [j \in 1..n |-> j]

\* lines 138-142: current_set for the candidate m
InlierSet(src, ref, m, t) ==
    LET projected_points == KeypointProjection(src, m)
        Test(j) == WithinTol(ref[j], projected_points[j], t)
    IN  SelectSeq(Indices(Len(src)), Test)

\* lines 143-144 with >= in place of >
KeepLargestInliersMutTie(current, largest) ==
    IF Len(current) >= Len(largest) THEN current ELSE largest

\* lines 143-144
KeepLargestInliers(current, largest) ==
    IF Len(current) > Len(largest) THEN current ELSE largest

\* Python's None, and the value of h before its first assignment
None == <<>>

Unassigned == <<"unassigned">>

\* the value of h_fit_on before the first solver call
NotCalled == <<0>>

\* cv2.findHomography(...)[0] on npoints correspondences.  The solver is
\* an external routine: given at least 4 correspondences it gives a matrix,
\* or None when they are degenerate; given fewer it raises cv2.error or
\* gives None, depending on the OpenCV build.
FindHomography(npoints) ==
    IF npoints >= MinimalSample THEN Homographies \cup {None} ELSE {None}

FindHomographyRaises(npoints) == npoints < MinimalSample

HomographyStrides == {1}

\* Input tables of the model.
SourcePoints == << <<0, 0>>, <<0, 1>>, <<1, 0>>, <<2, 1>>, <<2, 2>>,
                   <<1, 1>>, <<1, 2>> >>

\* source lists: distinct points, or one point repeated
SourceLists(n) ==
    {SubSeq(SourcePoints, 1, n), [k \in 1..n |-> SourcePoints[1]]}

\* the reference point of a source point: its image under the identity,
\* its image under StretchX, or an unrelated point
RefChoices(p) == {p, <<2 * p[1], p[2]>>, <<p[1] + 5, p[2] + 7>>}

RefLists(src) ==
    {r \in [1..Len(src) -> UNION {RefChoices(src[k]) : k \in 1..Len(src)}] :
        \A k \in 1..Len(src) : r[k] \in RefChoices(src[k])}

Tolerances == {0, 1}

\* the call RANSACHomography(xy_src, xy_ref, num_iter, tol)
InitH ==
    /\ \E n \in (MinimalSample - 1)..MaxPts :
          /\ xy_src \in SourceLists(n)
          /\ xy_ref \in RefLists(xy_src)
    /\ num_iter \in 0..MaxIter
    /\ tol \in Tolerances
    /\ hi = 1
    /\ h_sel = <<>>
    /\ h = Unassigned
    /\ h_largest = <<>>
    /\ h_cands = <<>>
    /\ h_fit_on = NotCalled
    /\ hpc = "loop"
    /\ herror = "none"

\* line 136 raises ValueError: sample larger than population
HomSampleFails ==
    /\ hpc = "loop"
    /\ hi <= num_iter
    /\ Len(xy_src) < MinimalSample
    /\ hpc' = "failed"
    /\ herror' = "ValueError"
    /\ UNCHANGED <<xy_src, xy_ref, num_iter, tol, hi, h_sel, h, h_largest,
                   h_cands, h_fit_on>>

\* lines 136-138 when the solver gives None: the assertion of line 94 in
\* KeypointProjection fails
HomIterDegenerate ==
    /\ hpc = "loop"
    /\ hi <= num_iter
    /\ Len(xy_src) >= MinimalSample
    /\ h_sel' \in SampleDraws(Indices(Len(xy_src)), MinimalSample,
                              HomographyStrides)
    /\ h_fit_on' = h_sel'
    /\ None \in FindHomography(Len(h_sel'))
    /\ h' = None
    /\ hpc' = "failed"
    /\ herror' = "AssertionError"
    /\ UNCHANGED <<xy_src, xy_ref, num_iter, tol, hi, h_largest, h_cands>>

\* lines 136-144 when the solver gives a matrix
HomIter ==
    /\ hpc = "loop"
    /\ hi <= num_iter
    /\ Len(xy_src) >= MinimalSample
    /\ h_sel' \in SampleDraws(Indices(Len(xy_src)), MinimalSample,
                              HomographyStrides)
    /\ h_fit_on' = h_sel'
    /\ h' \in FindHomography(Len(h_sel')) \ {None}
    /\ h_largest' = KeepLargestInliers(InlierSet(xy_src, xy_ref, h', tol),
                                       h_largest)
    /\ h_cands' = Append(h_cands, h')
    /\ hi' = hi + 1
    /\ UNCHANGED <<xy_src, xy_ref, num_iter, tol, hpc, herror>>

\* line 145 when the solver raises
HomRefitRaises ==
    /\ hpc = "loop"
    /\ hi > num_iter
    /\ h_fit_on' = h_largest
    /\ FindHomographyRaises(Len(h_largest))
    /\ hpc' = "failed"
    /\ herror' = "cv2.error"
    /\ UNCHANGED <<xy_src, xy_ref, num_iter, tol, hi, h_sel, h, h_largest,
                   h_cands>>

\* lines 145-148 when the solver gives None: the assertion of line 148 fails
HomRefitDegenerate ==
    /\ hpc = "loop"
    /\ hi > num_iter
    /\ h_fit_on' = h_largest
    /\ None \in FindHomography(Len(h_largest))
    /\ h' = None
    /\ hpc' = "failed"
    /\ herror' = "AssertionError"
    /\ UNCHANGED <<xy_src, xy_ref, num_iter, tol, hi, h_sel, h_largest,
                   h_cands>>

\* lines 145-150 when the solver gives a matrix
HomRefitReturn ==
    /\ hpc = "loop"
    /\ hi > num_iter
    /\ h_fit_on' = h_largest
    /\ h' \in FindHomography(Len(h_largest)) \ {None}
    /\ hpc' = "returned"
    /\ UNCHANGED <<xy_src, xy_ref, num_iter, tol, hi, h_sel, h_largest,
                   h_cands, herror>>

(***************************************************************************)
(* Properties of RANSACHomography                                          *)
(***************************************************************************)

\* the loop ran all its iterations
LoopFinished == hpc # "idle" /\ hi > num_iter

\* C1: an iteration whose 4-point fit gives no matrix does not abort the
\* estimation.
C1_DegenerateIterationAbsorbed ==
    (/\ Len(xy_src) >= MinimalSample
     /\ num_iter >= 1
     /\ hi <= num_iter
     /\ h = None)
        => hpc # "failed"

\* the indices j with distance(project(xy_src[j], m), xy_ref[j]) <= tol
InliersOf(m) ==
    {j \in 1..Len(xy_src) :
        LET x == m[1][1] * xy_src[j][1] + m[1][2] * xy_src[j][2] + m[1][3]
            y == m[2][1] * xy_src[j][1] + m[2][2] * xy_src[j][2] + m[2][3]
            w == m[3][1] * xy_src[j][1] + m[3][2] * xy_src[j][2] + m[3][3]
            dx == x - w * xy_ref[j][1]
            dy == y - w * xy_ref[j][2]
        IN  w # 0 /\ dx * dx + dy * dy <= tol * tol * w * w}

\* C3: the returned matrix is the fit on all indices of the inlier set of
\* the earliest iteration whose inlier set has the maximum size.
C3_RefitOnFirstLargestInlierSet ==
    hpc = "returned" =>
        \E m \in 1..Len(h_cands) :
            /\ Len(h_cands) = num_iter
            /\ \A k \in 1..Len(h_cands) :
                  Cardinality(InliersOf(h_cands[k]))
                      <= Cardinality(InliersOf(h_cands[m]))
            /\ \A k \in 1..(m - 1) :
                  Cardinality(InliersOf(h_cands[k]))
                      < Cardinality(InliersOf(h_cands[m]))
            /\ Range(h_fit_on) = InliersOf(h_cands[m])
            /\ Len(h_fit_on) = Cardinality(InliersOf(h_cands[m]))

\* a later iteration ties the winning size with another inlier set, and the
\* refit was made on more indices than the 4 sampled ones
C3_Witness ==
    /\ hpc = "returned"
    /\ \E k \in 1..Len(h_cands) :
          /\ Cardinality(InliersOf(h_cands[k])) = Len(h_fit_on)
          /\ InliersOf(h_cands[k]) # Range(h_fit_on)
    /\ \E k \in 1..Len(h_cands) :
          /\ InliersOf(h_cands[k]) = Range(h_fit_on)
          /\ h # h_cands[k]
    /\ Len(h_fit_on) < Len(xy_src)

\* C4: when the best inlier set has fewer than 4 members after all
\* iterations, the call fails with NoConsensusError without attempting a
\* refit.
C4_NoConsensusIsExplicit ==
    (LoopFinished /\ num_iter >= 1 /\ Len(h_largest) < MinimalSample
        /\ hpc # "loop")
        => /\ hpc = "failed"
           /\ herror = "NoConsensusError"
           /\ h_fit_on # h_largest

IdleM ==
    /\ descriptors1 = <<>>
    /\ descriptors2 = <<>>
    /\ threshold = <<1, 1>>
    /\ mi = 0
    /\ m_pairs = <<>>
    /\ mpc = "idle"
    /\ merror = "none"

IdleH ==
    /\ xy_src = <<>>
    /\ xy_ref = <<>>
    /\ num_iter = 0
    /\ tol = 0
    /\ hi = 0
    /\ h_sel = <<>>
    /\ h = Unassigned
    /\ h_largest = <<>>
    /\ h_cands = <<>>
    /\ h_fit_on = NotCalled
    /\ hpc = "idle"
    /\ herror = "none"

NextF ==
    \/ FilterSampleFails /\ UNCHANGED <<varsM, varsH>>
    \/ FilterSample /\ UNCHANGED <<varsM, varsH>>
    \/ FilterIter /\ UNCHANGED <<varsM, varsH>>
    \/ FilterReturn /\ UNCHANGED <<varsM, varsH>>

\* only RANSACFilter is called
InitFilter == InitF /\ IdleM /\ IdleH

SpecFilter == InitFilter /\ [][NextF]_vars

NextM ==
    \/ MatchIterIndexError /\ UNCHANGED <<varsF, varsH>>
    \/ MatchIterZeroDivision /\ UNCHANGED <<varsF, varsH>>
    \/ MatchIterAccept /\ UNCHANGED <<varsF, varsH>>
    \/ MatchIterReject /\ UNCHANGED <<varsF, varsH>>
    \/ MatchReturn /\ UNCHANGED <<varsF, varsH>>

\* only FindBestMatches is called
InitMatch == IdleF /\ InitM /\ IdleH

SpecMatch == InitMatch /\ [][NextM]_vars

NextH ==
    \/ HomSampleFails /\ UNCHANGED <<varsF, varsM>>
    \/ HomIterDegenerate /\ UNCHANGED <<varsF, varsM>>
    \/ HomIter /\ UNCHANGED <<varsF, varsM>>
    \/ HomRefitRaises /\ UNCHANGED <<varsF, varsM>>
    \/ HomRefitDegenerate /\ UNCHANGED <<varsF, varsM>>
    \/ HomRefitReturn /\ UNCHANGED <<varsF, varsM>>

\* only RANSACHomography is called
InitHomography == IdleF /\ IdleM /\ InitH

SpecHomography == InitHomography /\ [][NextH]_vars

====
